---- MODULE Spec2Model ----
(***************************************************************************)
(* The chunked, resumable download client of ezft (pkg/client): metadata  *)
(* probe, strategy selection, failure-ledger replay, remainder            *)
(* recomputation, sequential and concurrent chunk passes, chunk fetch     *)
(* with retry, and the failure ledger file.                                *)
(*                                                                         *)
(* The source served is Total bytes long; the byte at offset o is          *)
(* Source(o), never 0, so that a zero in the target file is a hole.        *)
(* The server modelled here honours a range request it answers with 206:   *)
(* the body carries the requested bytes.  A request, and every read of a   *)
(* body, may fail.                                                          *)
(***************************************************************************)
EXTENDS Integers, Sequences, FiniteSets, TLC

\* Bounds of the model.
MaxTotal == 3
MaxChunkSize == 2
MaxConc == 2
MaxRetry == 1

VARIABLES
    cfg,            \* DownloadConfig: chunkSize, maxConcurrency, retryCount, enableResume, autoChunk, fileSize
    srv,            \* the server: total size of the source, whether it honours ranges
    fileExists,     \* the target file exists
    file,           \* the target file's bytes; file[o + 1] is the byte at offset o
    ledgerExists,   \* the failed-chunks file exists
    ledgerData,     \* its content, as written by saveFailedChunks
    pc,             \* where Download is: idle, basic, seq, dispatch, wait
    phase,          \* replay (the ledger's chunks) or rest (the remaining range)
    chunks,         \* the chunk list of the pass under way
    wk,             \* per chunk of the pass: the state of its downloadChunk call
    di,             \* the loop index of the pass (next chunk to start)
    attempt,        \* BasicDownload's attempt counter
    sem,            \* tokens in the semaphore channel
    wg,             \* the WaitGroup counter
    errChan,        \* the error channel (the chunk index each error names)
    failedChunks,   \* the failed chunks collected by the concurrent pass
    result,         \* what the last Download returned: none, ok, or the error's kind
    lastMode,       \* the path on which the last Download returned
    holes,          \* offsets of chunks that failed terminally and were not downloaded since
    reqs,           \* the ranges requested in this invocation
    startLen,       \* size of the target file when this call began
    startLedger,    \* ledger file present when this call began
    startChunks,    \* the chunks the ledger listed when this call began
    startHoley,     \* this call began with a full-length file, zeros exactly in the ledger's ranges
    probed,         \* how getFileInfo ended in this call: ok, headfail, rangefail
    ctxDone,        \* the context given to this call of Download has been cancelled
    arg,            \* a function called on its own: its name and arguments
    ret             \* and what it returned

fsVars == <<fileExists, file, ledgerExists, ledgerData>>
passVars == <<phase, chunks, wk, di, attempt>>
concVars == <<sem, wg, errChan, failedChunks>>
retVars == <<result, lastMode>>
callVars == <<startLen, startLedger, startChunks, startHoley, probed>>
unitVars == <<arg, ret>>
envVars == <<ctxDone, unitVars>>
vars == <<cfg, srv, fsVars, pc, passVars, concVars, retVars, callVars, holes, reqs, envVars>>

\* ------------------------------------------------------------------ data

Source(off) == off + 1

SourceFile(n) == [i \in 1..n |-> Source(i - 1)]

\* The offsets of the source that lie in the chunk's range.
Offsets(ck) == {o \in 0..(srv.total - 1) : ck.Start <= o /\ o <= ck.End}

Max(a, b) == IF a > b THEN a ELSE b

\* A write that cuts the file off behind the byte written.
WriteAtTruncating(f, b, off) ==
    [i \in 1..(off + 1) |->
        IF i = off + 1 THEN b ELSE IF i <= Len(f) THEN f[i] ELSE 0]

\* file.WriteAt(<<b>>, off): a positioned write; a gap before off reads as zeros.
WriteAt(f, b, off) ==
    [i \in 1..Max(Len(f), off + 1) |->
        IF i = off + 1 THEN b ELSE IF i <= Len(f) THEN f[i] ELSE 0]

\* getExistingFileSize: 0 when the file does not exist.
getExistingFileSize == IF fileExists THEN Len(file) ELSE 0

MB == 1024 * 1024

\* A size of up to hundreds of GB does not fit the integers checked here: a
\* totalSize is given as mb whole MB and b further bytes, 0 <= b < MB.
\* totalSize > n * 1024 * 1024:
ExceedsMB(mb, b, n) == mb > n \/ (mb = n /\ b > 0)

\* Each size threshold counted in the band above it.
calculateChunkSizeInclusive(mb, b) ==
    IF mb >= 100 * 1024 THEN 100 * MB
    ELSE IF mb >= 10 * 1024 THEN 50 * MB
    ELSE IF mb >= 1 * 1024 THEN 20 * MB
    ELSE IF mb >= 100 THEN 10 * MB
    ELSE 4 * MB

\* The largest sizes falling back to the smallest chunk size.
calculateChunkSizeDip(mb, b) ==
    IF ExceedsMB(mb, b, 100 * 1024) THEN 4 * MB
    ELSE IF ExceedsMB(mb, b, 10 * 1024) THEN 50 * MB
    ELSE IF ExceedsMB(mb, b, 1 * 1024) THEN 20 * MB
    ELSE IF ExceedsMB(mb, b, 100) THEN 10 * MB
    ELSE 4 * MB

calculateChunkSize(mb, b) ==
    IF ExceedsMB(mb, b, 100 * 1024) THEN 100 * MB
    ELSE IF ExceedsMB(mb, b, 10 * 1024) THEN 50 * MB
    ELSE IF ExceedsMB(mb, b, 1 * 1024) THEN 20 * MB
    ELSE IF ExceedsMB(mb, b, 100) THEN 10 * MB
    ELSE 4 * MB

\* The chunk size calculateChunks leaves in the config.
EffectiveChunkSize(c, start, end) ==
    IF c.autoChunk
    THEN calculateChunkSize((end - start) \div MB, (end - start) % MB)
    ELSE c.chunkSize

\* Offsets, sizes and chunk fields are int64 and their sums wrap around.  The
\* model keeps 31 bits of them: MinInt..MaxInt.
MaxInt == 1024 * MB - 1

MinInt == -MaxInt - 1

Wrap(x) ==
    IF x > MaxInt THEN (x - MaxInt) - MaxInt - 2
    ELSE IF x < MinInt THEN (x + MaxInt) + MaxInt + 2
    ELSE x

\* Go's integer division truncates toward zero; b > 0.
GoDiv(a, b) == IF a >= 0 THEN a \div b ELSE -((-a) \div b)

\* The loop of calculateChunks: for i := start; i < end; i += chunkSize.
RECURSIVE ChunkLoop(_, _, _, _)
ChunkLoop(i, start, end, chunkSize) ==
    IF i >= end THEN <<>>
    ELSE LET e == Wrap(Wrap(i + chunkSize) - 1)
         IN <<[Index |-> GoDiv(Wrap(i - start), chunkSize),
               Start |-> i,
               End |-> IF e >= end THEN Wrap(end - 1) ELSE e]>>
            \o ChunkLoop(Wrap(i + chunkSize), start, end, chunkSize)

\* The planner stopping one byte short of the range's end.
calculateChunksShort(c, start, end) ==
    ChunkLoop(start, start, end - 1, EffectiveChunkSize(c, start, end))

\* A planner that returns one chunk for a range without bytes.
calculateChunksAtLeastOne(c, start, end) ==
    IF end <= start
    THEN <<[Index |-> 0, Start |-> start, End |-> Wrap(end - 1)]>>
    ELSE ChunkLoop(start, start, end, EffectiveChunkSize(c, start, end))

calculateChunks(c, start, end) ==
    ChunkLoop(start, start, end, EffectiveChunkSize(c, start, end))

\* ------------------------------------------------------------------ ledger

\* An encoder that writes the first chunk only.
MarshalFirstOnly(cs) ==
    IF cs = <<>> THEN <<>>
    ELSE <<cs[1].Index, cs[1].Start, cs[1].End>>

\* json.Marshal of a chunk list: the fields of each chunk, in order.  The
\* empty sequence stands for the text of a list without chunks.
RECURSIVE Marshal(_)
Marshal(cs) ==
    IF cs = <<>> THEN <<>>
    ELSE <<cs[1].Index, cs[1].Start, cs[1].End>> \o Marshal(Tail(cs))

\* json.Unmarshal: the chunks of the data, or a parse error.
Unmarshal(data) ==
    IF Len(data) % 3 # 0 THEN [ok |-> FALSE, chunks |-> <<>>]
    ELSE [ok |-> TRUE,
          chunks |-> [j \in 1..(Len(data) \div 3) |->
                        [Index |-> data[3 * j - 2],
                         Start |-> data[3 * j - 1],
                         End |-> data[3 * j]]]]

\* What a ledger file may hold when the client finds it: a list, or content
\* that does not parse.
LedgerContents ==
    {<<>>, <<0>>, <<0, 0>>, <<0, 0, 0>>, <<1, 2, 3, 4>>, <<1, 1, 1, 0, 0, 0>>}

\* A ledger that does not parse taken for an empty one.
loadFailedChunksLenient ==
    IF ledgerExists /\ Unmarshal(ledgerData).ok
    THEN Unmarshal(ledgerData)
    ELSE [ok |-> TRUE, chunks |-> <<>>]

\* A missing ledger file reported as an error.
loadFailedChunksStrict ==
    IF ledgerExists THEN Unmarshal(ledgerData) ELSE [ok |-> FALSE, chunks |-> <<>>]

\* loadFailedChunks: the list and whether err is nil; a missing file is an
\* empty list.
loadFailedChunks ==
    IF ledgerExists THEN Unmarshal(ledgerData) ELSE [ok |-> TRUE, chunks |-> <<>>]

\* The failed chunks added to what the ledger already lists.
SaveLedgerAppend(cs) ==
    /\ ledgerExists' = TRUE
    /\ ledgerData' = ledgerData \o Marshal(cs)

\* saveFailedChunks(cs): os.WriteFile replaces the content.
SaveLedger(cs) ==
    /\ ledgerExists' = TRUE
    /\ ledgerData' = Marshal(cs)

\* The ledger left as it is where it should be deleted.
KeepLedger == UNCHANGED <<ledgerExists, ledgerData>>

\* os.Stat, then os.Remove when the file is there.
RemoveLedger ==
    /\ ledgerExists' = FALSE
    /\ ledgerData' = <<>>

\* ------------------------------------------------------------------ downloadChunk

NewWk == [st |-> "new", retry |-> 0, off |-> 0, res |-> "none"]

\* Entering downloadChunk: the retry loop runs while retry <= RetryCount.
StartChunk(w) ==
    IF 0 <= cfg.retryCount
    THEN [w EXCEPT !.st = "req", !.retry = 0]
    ELSE [w EXCEPT !.st = "ret", !.res = "ok"]

\* A retry loop that runs once more than RetryCount allows.
AttemptFailedOneMore(w) ==
    IF w.retry = cfg.retryCount + 1
    THEN [w EXCEPT !.st = "ret", !.res = "err", !.off = 0, !.retry = 0]
    ELSE [w EXCEPT !.st = "req", !.retry = @ + 1, !.off = 0]

\* A loop that waits out the backoff without a look at the context.
AttemptFailedIgnoreCtx(w) ==
    IF w.retry = cfg.retryCount
    THEN [w EXCEPT !.st = "ret", !.res = IF ctxDone THEN "ctx" ELSE "err",
                   !.off = 0, !.retry = 0]
    ELSE [w EXCEPT !.st = "req", !.retry = @ + 1, !.off = 0]

\* downloadChunkOnce returned an error on attempt w.retry.  Once the context
\* is cancelled the error is the context's, and downloadChunk returns it: as
\* the last attempt's error, or from the select that waits before a retry.
AttemptFailed(w) ==
    IF ctxDone
    THEN [w EXCEPT !.st = "ret", !.res = "ctx", !.off = 0, !.retry = 0]
    ELSE IF w.retry = cfg.retryCount
    THEN [w EXCEPT !.st = "ret", !.res = "err", !.off = 0, !.retry = 0]
    ELSE [w EXCEPT !.st = "req", !.retry = @ + 1, !.off = 0]

HolesAfter(w, ck) ==
    IF w.st # "ret" THEN holes
    ELSE IF w.res = "ok" THEN holes \ Offsets(ck)
    ELSE holes \cup Offsets(ck)

\* A write placed relative to the start of the chunk, not of the file.
WriteOffsetRelative(ck, cur) == cur - ck.Start

\* The offset a read's bytes are written at: the running currentOffset.
WriteOffset(ck, cur) == cur

\* The range bytes=Start-End lies within the source: the server answers 206
\* only to such a request.
Satisfiable(ck) == 0 <= ck.Start /\ ck.Start <= ck.End /\ ck.End < srv.total

\* downloadChunkOnce, the request: an error or a status other than 206 fails
\* the attempt; 206 starts the streaming loop at chunk.Start.  With the
\* context cancelled the chunk returns the context's error and no request
\* goes out: from the select that waits before a retry, or from a Do that
\* fails on the context before it sends.
Request(i, resp) ==
    /\ UNCHANGED envVars
    /\ i \in DOMAIN wk
    /\ wk[i].st = "req"
    /\ ctxDone => resp = "fail"
    /\ resp = "206" => Satisfiable(chunks[i])
    /\ reqs' = IF ctxDone THEN reqs
               ELSE reqs \cup {<<chunks[i].Start, chunks[i].End>>}
    /\ LET w2 == IF resp = "206"
                 THEN [wk[i] EXCEPT !.st = "body", !.off = chunks[i].Start]
                 ELSE AttemptFailed(wk[i])
       IN /\ wk' = [wk EXCEPT ![i] = w2]
          /\ holes' = HolesAfter(w2, chunks[i])
    /\ UNCHANGED <<cfg, srv, fsVars, pc, phase, chunks, di, attempt, concVars,
                   retVars, callVars>>

\* downloadChunkOnce, one round of the streaming loop: Read returns n bytes
\* and err; the bytes are written at currentOffset; a read error fails the
\* attempt after the write; the loop ends once currentOffset > chunk.End.
\* With the context cancelled the round returns ctx.Err() before it reads.
Read(i, n, err) ==
    /\ UNCHANGED envVars
    /\ i \in DOMAIN wk
    /\ wk[i].st = "body"
    /\ ctxDone => (n = 0 /\ err)
    /\ LET ck == chunks[i]
           cur == wk[i].off
           w1 == [wk[i] EXCEPT !.off = cur + n]
           w2 == IF err THEN AttemptFailed(w1)
                 ELSE IF cur + n > ck.End THEN [w1 EXCEPT !.st = "ret", !.res = "ok", !.off = 0, !.retry = 0]
                 ELSE w1
       IN /\ file' = IF n = 1
                     THEN WriteAt(file, Source(cur), WriteOffset(ck, cur))
                     ELSE file
          /\ wk' = [wk EXCEPT ![i] = w2]
          /\ holes' = HolesAfter(w2, ck)
    /\ UNCHANGED <<cfg, srv, fileExists, ledgerExists, ledgerData, pc, phase,
                   chunks, di, attempt, concVars, retVars, callVars, reqs>>

\* downloadChunkOnce, the body ends: Read returns n bytes and io.EOF.  The
\* bytes are written and the loop is left without a look at currentOffset;
\* the attempt returns nil.
ReadEOF(i, n) ==
    /\ UNCHANGED envVars
    /\ i \in DOMAIN wk
    /\ wk[i].st = "body"
    /\ ~ctxDone
    /\ LET ck == chunks[i]
           cur == wk[i].off
           w2 == [wk[i] EXCEPT !.st = "ret", !.res = "ok", !.off = 0, !.retry = 0]
       IN /\ file' = IF n = 1
                     THEN WriteAt(file, Source(cur), WriteOffset(ck, cur))
                     ELSE file
          /\ wk' = [wk EXCEPT ![i] = w2]
          /\ holes' = HolesAfter(w2, ck)
    /\ UNCHANGED <<cfg, srv, fileExists, ledgerExists, ledgerData, pc, phase,
                   chunks, di, attempt, concVars, retVars, callVars, reqs>>

\* The bytes of a read written unclamped.
ClampNone(ck, cur, n) == n

\* Ensure not exceeding chunk boundary: of the n bytes a Read returned at
\* currentOffset cur, those up to chunk.End are kept.
Clamp(ck, cur, n) == IF cur + n > ck.End + 1 THEN ck.End + 1 - cur ELSE n

\* file.WriteAt of the n bytes the server sent for the offsets from off on.
RECURSIVE WriteBytes(_, _, _)
WriteBytes(f, off, n) ==
    IF n <= 0 THEN f
    ELSE WriteBytes(WriteAt(f, Source(off), off), off + 1, n - 1)

\* downloadChunkOnce, a round of the streaming loop in which Read returns two
\* bytes, which may be more than the chunk has left: the server sent a body
\* longer than the range asked for.
ReadTwo(i, err) ==
    /\ UNCHANGED envVars
    /\ i \in DOMAIN wk
    /\ wk[i].st = "body"
    /\ ~ctxDone
    /\ LET ck == chunks[i]
           cur == wk[i].off
           n == Clamp(ck, cur, 2)
           w1 == [wk[i] EXCEPT !.off = cur + n]
           w2 == IF err THEN AttemptFailed(w1)
                 ELSE IF cur + n > ck.End THEN [w1 EXCEPT !.st = "ret", !.res = "ok", !.off = 0, !.retry = 0]
                 ELSE w1
       IN /\ file' = WriteBytes(file, WriteOffset(ck, cur), n)
          /\ wk' = [wk EXCEPT ![i] = w2]
          /\ holes' = HolesAfter(w2, ck)
    /\ UNCHANGED <<cfg, srv, fileExists, ledgerExists, ledgerData, pc, phase,
                   chunks, di, attempt, concVars, retVars, callVars, reqs>>

\* ------------------------------------------------------------------ Download

Ranges(cs) == UNION {Offsets(cs[j]) : j \in DOMAIN cs}

\* f has the full length and the source's bytes, except zeros exactly in the
\* ranges of the chunks cs, of which there is at least one.
HoleyFile(f, cs) ==
    /\ Len(cs) > 0
    /\ Len(f) = srv.total
    /\ \A o \in 0..(srv.total - 1) :
          f[o + 1] = IF o \in Ranges(cs) THEN 0 ELSE Source(o)

Return(res, mode) ==
    /\ pc' = "idle"
    /\ result' = res
    /\ lastMode' = mode

\* A semaphore one token too large.
SemOverAdmit == sem <= cfg.maxConcurrency

\* The send on the semaphore channel does not block: it holds fewer than
\* MaxConcurrency tokens.
SemHasRoom == sem < cfg.maxConcurrency

\* Returning on the first error instead of waiting for every goroutine.
WaitDoneFailFast == wg = 0 \/ Len(errChan) > 0

\* wg.Wait() returns.
WaitDone == wg = 0

\* The locals of a concurrent pass before it starts.
NoConc ==
    /\ sem' = 0
    /\ wg' = 0
    /\ errChan' = <<>>
    /\ failedChunks' = <<>>

\* No pass under way, none left over from a call that returned.
NoPass ==
    /\ phase' = "rest"
    /\ chunks' = <<>>
    /\ wk' = <<>>
    /\ di' = 1
    /\ attempt' = 0
    /\ NoConc

\* downloadWithResume after the replay: measure the file, plan the rest and
\* enter the sequential or the concurrent pass.  c is the config, fs the
\* probed size.
Remainder(c, fs) ==
    LET newExistingSize == Len(file)
        remainingSize == fs - newExistingSize
        cs == calculateChunks(c, newExistingSize, fs)
    IN IF remainingSize <= 0
       THEN /\ Return("ok", "nothing")
            /\ cfg' = c
            /\ NoPass
       ELSE /\ cfg' = [c EXCEPT !.chunkSize = EffectiveChunkSize(c, newExistingSize, fs)]
            /\ phase' = "rest"
            /\ chunks' = cs
            /\ di' = 1
            /\ attempt' = 0
            /\ NoConc
            /\ UNCHANGED retVars
            /\ IF c.maxConcurrency < 2
               THEN /\ pc' = "seq"
                    /\ wk' = [i \in 1..Len(cs) |->
                                IF i = 1 THEN StartChunk(NewWk) ELSE NewWk]
               ELSE /\ pc' = IF Len(cs) = 0 THEN "wait" ELSE "dispatch"
                    /\ wk' = [i \in 1..Len(cs) |-> NewWk]

\* A probe that gives up only when the HEAD request fails.
ProbeFailedHeadOnly(probe) == probe = "headfail"

\* getFileInfo returned an error: the HEAD request failed, answered with a
\* status other than 200 or without a Content-Length that parses (headfail),
\* or the range request of the second method failed (rangefail).
ProbeFailed(probe) == probe # "ok"

\* A check that takes only a longer file for a complete one.
AlreadyCompleteLonger(existingSize, fileSize) == existingSize > fileSize

\* The file is already completely downloaded: existingSize == fileSize.
AlreadyComplete(existingSize, fileSize) == existingSize = fileSize

\* A ledger that lists chunks is never replayed.
NeedsReplayNever(failed) == FALSE

\* if len(failedChunks) > 0: the ledger's chunks are downloaded first.
NeedsReplay(failed) == Len(failed.chunks) > 0

\* Chunked mode whenever the server supports ranges.
UseChunkedIgnoreResume(supportsRange, enableResume) == supportsRange

\* Download's choice of downloadWithResume over BasicDownload.
UseChunked(supportsRange, enableResume) == supportsRange /\ enableResume

\* Download up to the first chunk request: the probe (getFileInfo), the
\* already-complete check, the choice of strategy, and in chunked mode the
\* opening of the file and the loading of the ledger.
Download(probe) ==
    /\ ctxDone' = FALSE
    /\ UNCHANGED unitVars
    /\ pc = "idle"
    /\ startLen' = getExistingFileSize
    /\ startLedger' = ledgerExists
    /\ startChunks' = loadFailedChunks.chunks
    /\ startHoley' = HoleyFile(file, loadFailedChunks.chunks)
    /\ probed' = probe
    /\ reqs' = {}
    /\ UNCHANGED <<srv, holes>>
    /\ IF ProbeFailed(probe)
       THEN /\ Return("probe", "probe")
            /\ cfg' = IF probe = "rangefail"
                      THEN [cfg EXCEPT !.fileSize = srv.total] ELSE cfg
            /\ NoPass
            /\ UNCHANGED fsVars
       ELSE LET c == [cfg EXCEPT !.fileSize = srv.total]
                fileSize == srv.total
                failed == loadFailedChunks
            IN IF AlreadyComplete(getExistingFileSize, fileSize)
               THEN /\ Return("ok", "complete")
                    /\ cfg' = c
                    /\ NoPass
                    /\ UNCHANGED fsVars
               ELSE IF UseChunked(srv.ranges, cfg.enableResume)
               THEN /\ fileExists' = TRUE
                    /\ UNCHANGED <<file, ledgerExists, ledgerData>>
                    /\ IF ~failed.ok
                       THEN /\ Return("load", "load")
                            /\ cfg' = c
                            /\ NoPass
                       ELSE IF NeedsReplay(failed)
                       THEN /\ pc' = "seq"
                            /\ phase' = "replay"
                            /\ chunks' = failed.chunks
                            /\ wk' = [i \in 1..Len(failed.chunks) |->
                                        IF i = 1 THEN StartChunk(NewWk) ELSE NewWk]
                            /\ di' = 1
                            /\ cfg' = c
                            /\ attempt' = 0
                            /\ NoConc
                            /\ UNCHANGED retVars
                       ELSE Remainder(c, fileSize)
               ELSE /\ pc' = "basic"
                    /\ attempt' = 0
                    /\ cfg' = c
                    /\ phase' = "rest"
                    /\ chunks' = <<>>
                    /\ wk' = <<>>
                    /\ di' = 1
                    /\ NoConc
                    /\ UNCHANGED <<fsVars, retVars>>

\* BasicDownload, one attempt of performBasicDownload: the request fails, or
\* the file is truncated and the body copied, wholly or up to an error.
BasicAttempt(outcome, n) ==
    /\ UNCHANGED envVars
    /\ pc = "basic"
    /\ n \in 0..srv.total
    /\ outcome = "ok" => n = srv.total
    /\ outcome = "copyfail" => n < srv.total
    /\ outcome = "reqfail" => n = 0
    /\ IF outcome = "reqfail"
       THEN UNCHANGED <<fileExists, file>>
       ELSE /\ fileExists' = TRUE
            /\ file' = SourceFile(n)
    /\ IF outcome = "ok"
       THEN /\ Return("ok", "basic")
            /\ holes' = {}
            /\ UNCHANGED attempt
       ELSE /\ UNCHANGED holes
            /\ IF attempt >= cfg.retryCount
               THEN /\ Return("basic", "basic")
                    /\ UNCHANGED attempt
               ELSE /\ attempt' = attempt + 1
                    /\ UNCHANGED <<pc, retVars>>
    /\ UNCHANGED <<cfg, srv, ledgerExists, ledgerData, phase, chunks, wk, di,
                   concVars, callVars, reqs>>

\* ------------------------------------------------------------------ sequential pass

\* The error downloadChunk returned: the context's, or a request's or read's.
ErrKind(w) == IF w.res = "ctx" THEN "cancel" ELSE "chunk"

\* A loop that goes on to the next chunk whatever downloadChunk returned.
ChunkReturnedNilOrError(w) == w.st = "ret"

\* downloadChunk returned nil.
ChunkReturnedNil(w) == w.st = "ret" /\ w.res = "ok"

\* downloadChunksSequentially: the chunk under way returned nil; start the
\* next one, or, after the last, delete the ledger and go on.
SeqAdvance ==
    /\ UNCHANGED envVars
    /\ pc = "seq"
    /\ \/ di > Len(chunks)
       \/ di \in DOMAIN wk /\ ChunkReturnedNil(wk[di])
    /\ UNCHANGED <<srv, fileExists, file, callVars, holes, reqs>>
    /\ IF di < Len(chunks)
       THEN /\ di' = di + 1
            /\ wk' = [wk EXCEPT ![di + 1] = StartChunk(@)]
            /\ UNCHANGED <<cfg, ledgerExists, ledgerData, pc, phase, chunks,
                           attempt, concVars, retVars>>
       ELSE /\ RemoveLedger
            /\ IF phase = "replay"
               THEN Remainder(cfg, cfg.fileSize)
               ELSE /\ Return("ok", "seq")
                    /\ UNCHANGED <<cfg, passVars, concVars>>

\* downloadChunksSequentially: the chunk under way returned an error; record
\* that one chunk and return the error.
SeqFail ==
    /\ UNCHANGED envVars
    /\ pc = "seq"
    /\ di \in DOMAIN wk
    /\ wk[di].st = "ret"
    /\ wk[di].res \in {"err", "ctx"}
    /\ SaveLedger(<<chunks[di]>>)
    /\ Return(ErrKind(wk[di]), "seq")
    /\ UNCHANGED <<cfg, srv, fileExists, file, passVars, concVars, callVars,
                   holes, reqs>>

\* ------------------------------------------------------------------ concurrent pass

InConc == pc \in {"dispatch", "wait"}

\* The dispatch loop: take a semaphore token, wg.Add(1), start the goroutine.
Dispatch ==
    /\ UNCHANGED envVars
    /\ pc = "dispatch"
    /\ di <= Len(chunks)
    /\ SemHasRoom
    /\ sem' = sem + 1
    /\ wg' = wg + 1
    /\ wk' = [wk EXCEPT ![di] = StartChunk(@)]
    /\ di' = di + 1
    /\ pc' = IF di = Len(chunks) THEN "wait" ELSE "dispatch"
    /\ UNCHANGED <<cfg, srv, fsVars, phase, chunks, attempt, errChan,
                   failedChunks, retVars, callVars, holes, reqs>>

\* The shared list overwritten instead of appended to.
RecordFailedOverwrite(list, ck) == <<ck>>

\* What the goroutine of chunk ck does to the shared list, under the mutex.
\* A goroutine that records its chunk only for an error other than the
\* context's.
RecordFailedUnlessCancelled(list, ck) ==
    IF ctxDone THEN list ELSE Append(list, ck)

RecordFailed(list, ck) == Append(list, ck)

\* errChan <- err: the channel's capacity is len(chunks); the error names the
\* chunk's index.
SendErr(ch, ck) == Append(ch, ck.Index)

\* An error channel that holds one error.
ErrChanCapacityOne == Len(errChan) < 1

\* The send on errChan does not block: make(chan error, len(chunks)).
ErrChanHasRoom == Len(errChan) < Len(chunks)

\* The goroutine, downloadChunk returned an error: append the chunk under the
\* mutex, then send the error.  Nothing reads the list or the channel before
\* wg.Wait returns, so the two are one step.
Fail(i) ==
    /\ UNCHANGED envVars
    /\ InConc
    /\ i \in DOMAIN wk
    /\ wk[i].st = "ret"
    /\ wk[i].res \in {"err", "ctx"}
    /\ ErrChanHasRoom
    /\ failedChunks' = RecordFailed(failedChunks, chunks[i])
    /\ errChan' = SendErr(errChan, chunks[i])
    /\ wk' = [wk EXCEPT ![i].st = "sent"]
    /\ UNCHANGED <<cfg, srv, fsVars, pc, phase, chunks, di, attempt, sem, wg,
                   retVars, callVars, holes, reqs>>

\* The goroutine's deferred function: wg.Done(), then the token is given back.
Exit(i) ==
    /\ UNCHANGED envVars
    /\ InConc
    /\ i \in DOMAIN wk
    /\ \/ wk[i].st = "sent"
       \/ wk[i].st = "ret" /\ wk[i].res = "ok"
    /\ wg' = wg - 1
    /\ sem' = sem - 1
    /\ wk' = [wk EXCEPT ![i].st = "done"]
    /\ UNCHANGED <<cfg, srv, fsVars, pc, phase, chunks, di, attempt,
                   errChan, failedChunks, retVars, callVars, holes, reqs>>

\* errors[0]: the error of the chunk whose goroutine sent first.
FirstError ==
    LET j == CHOOSE j \in DOMAIN chunks : chunks[j].Index = errChan[1]
    IN ErrKind(wk[j])

\* After wg.Wait(): close and drain the channel, save the failed chunks if
\* any, return the first error if any, else delete the ledger.
Finish ==
    /\ UNCHANGED envVars
    /\ pc = "wait"
    /\ WaitDone
    /\ IF Len(errChan) > 0
       THEN /\ IF Len(failedChunks) > 0
               THEN SaveLedger(failedChunks)
               ELSE UNCHANGED <<ledgerExists, ledgerData>>
            /\ Return(FirstError, "conc")
       ELSE /\ RemoveLedger
            /\ Return("ok", "conc")
    /\ UNCHANGED <<cfg, srv, fileExists, file, passVars, concVars, callVars,
                   holes, reqs>>

\* ------------------------------------------------------------------ specification

Configs ==
    [chunkSize : 1..MaxChunkSize,
     maxConcurrency : 1..MaxConc,
     retryCount : 0..MaxRetry,
     enableResume : BOOLEAN,
     autoChunk : BOOLEAN,
     fileSize : {0}]

Servers == [total : 1..MaxTotal, ranges : BOOLEAN]

\* The state of a client no call was made on yet, but for its config.
InitLocals ==
    /\ srv \in Servers
    /\ di = 1
    /\ attempt = 0
    /\ sem = 0
    /\ wg = 0
    /\ errChan = <<>>
    /\ failedChunks = <<>>
    /\ result = "none"
    /\ lastMode = "none"
    /\ reqs = {}
    /\ startChunks = <<>>
    /\ startHoley = FALSE
    /\ probed = "none"
    /\ ctxDone = FALSE
    /\ arg = [fn |-> "none"]
    /\ ret = [fn |-> "none"]

InitRun ==
    /\ cfg \in Configs
    /\ InitLocals

\* No call of Download under way.
Idle ==
    /\ pc = "idle"
    /\ phase = "rest"
    /\ chunks = <<>>
    /\ wk = <<>>
    /\ holes = {}

InitIdle ==
    /\ InitRun
    /\ Idle

\* A first run: no target file, no ledger.
Init ==
    /\ InitIdle
    /\ fileExists = FALSE
    /\ file = <<>>
    /\ ledgerExists = FALSE
    /\ ledgerData = <<>>
    /\ startLen = 0
    /\ startLedger = FALSE

\* A byte of some other content, differing from the source's at every offset.
Stale(off) == Source(off) + MaxTotal + 1

\* A run that finds a file at the output path: of any length up to one byte
\* more than the source, of other content.
InitPre ==
    /\ InitIdle
    /\ fileExists = TRUE
    /\ \E n \in 1..(MaxTotal + 1) : file = [i \in 1..n |-> Stale(i - 1)]
    /\ ledgerExists = FALSE
    /\ ledgerData = <<>>
    /\ startLen = Len(file)
    /\ startLedger = FALSE

\* downloadChunksConcurrently called on its own, as the package's tests do:
\* a freshly created file, the chunks of the whole source, and perhaps a
\* ledger left by an earlier run that lists the first chunk.  The pass itself
\* never reads EnableResume; a client configured without it is started with
\* RetryCount 0 only, and the calls of Download that follow are basic ones.
InitConc ==
    /\ InitRun
    /\ srv.ranges
    /\ cfg.enableResume \/ cfg.retryCount = 0
    /\ chunks = calculateChunks(cfg, 0, srv.total)
    /\ wk = [i \in 1..Len(chunks) |-> NewWk]
    /\ pc = IF Len(chunks) = 0 THEN "wait" ELSE "dispatch"
    /\ phase = "rest"
    /\ fileExists = TRUE
    /\ file = <<>>
    /\ ledgerExists \in BOOLEAN
    /\ ledgerExists => Len(chunks) > 0
    /\ ledgerData = IF ledgerExists THEN Marshal(<<chunks[1]>>) ELSE <<>>
    /\ holes = IF ledgerExists THEN Offsets(chunks[1]) ELSE {}
    /\ startLen = 0
    /\ startLedger = ledgerExists


Next ==
    \/ \E probe \in {"ok", "headfail", "rangefail"} : Download(probe)
    \/ \E o \in {"ok", "copyfail", "reqfail"}, n \in 0..MaxTotal : BasicAttempt(o, n)
    \/ \E i \in 1..MaxTotal, resp \in {"206", "fail"} : Request(i, resp)
    \/ \E i \in 1..MaxTotal : Read(i, 1, FALSE)
    \/ \E i \in 1..MaxTotal : Read(i, 1, TRUE)
    \/ \E i \in 1..MaxTotal : Read(i, 0, TRUE)
    \/ SeqAdvance
    \/ SeqFail
    \/ Dispatch
    \/ \E i \in 1..MaxTotal : Fail(i)
    \/ \E i \in 1..MaxTotal : Exit(i)
    \/ Finish

Spec == Init /\ [][Next]_vars

\* Download called with or without a file at the output path.
SpecPre == (Init \/ InitPre) /\ [][Next]_vars

\* The concurrent pass called on its own, and the calls of Download after it.
SpecConc == InitConc /\ [][Next]_vars

\* A run that finds a ledger file at its path, whatever it holds, and perhaps
\* a file of other content at the output path.
InitFound ==
    /\ InitIdle
    /\ \E n \in 0..MaxTotal :
          /\ fileExists = (n > 0)
          /\ file = [i \in 1..n |-> Stale(i - 1)]
    /\ ledgerExists = TRUE
    /\ ledgerData \in LedgerContents
    /\ holes = {}
    /\ startLen = Len(file)
    /\ startLedger = TRUE

\* Download on a client of MaxConcurrency 1, which runs every pass
\* sequentially, on whatever it finds on disk.
InitSeq ==
    /\ Init \/ InitPre \/ InitFound
    /\ cfg.maxConcurrency = 1

NextSeq ==
    \/ \E probe \in {"ok", "headfail", "rangefail"} : Download(probe)
    \/ \E o \in {"ok", "copyfail", "reqfail"}, n \in 0..MaxTotal : BasicAttempt(o, n)
    \/ \E i \in 1..MaxTotal, resp \in {"206", "fail"} : Request(i, resp)
    \/ \E i \in 1..MaxTotal : Read(i, 1, FALSE)
    \/ \E i \in 1..MaxTotal : Read(i, 1, TRUE)
    \/ \E i \in 1..MaxTotal : Read(i, 0, TRUE)
    \/ SeqAdvance
    \/ SeqFail

SpecSeq == InitSeq /\ [][NextSeq]_vars

\* A run, sequential or concurrent, that finds no file and a ledger listing
\* the chunk of the first byte.
InitReplay ==
    /\ InitFound
    /\ ~fileExists
    /\ ledgerData = <<0, 0, 0>>
    /\ ~cfg.autoChunk

SpecReplay == InitReplay /\ [][Next]_vars

\* A client of MaxConcurrency 1 configured for a single chunk: the largest
\* chunk size an integer holds.
HugeConfigs ==
    [chunkSize : {MaxInt},
     maxConcurrency : {1},
     retryCount : 0..MaxRetry,
     enableResume : BOOLEAN,
     autoChunk : {FALSE},
     fileSize : {0}]

\* Its run finds no file at the output path, or the first bytes of the
\* source left by an interrupted download.
InitHuge ==
    /\ cfg \in HugeConfigs
    /\ InitLocals
    /\ Idle
    /\ \E n \in 0..(MaxTotal - 1) :
          /\ fileExists = (n > 0)
          /\ file = SourceFile(n)
    /\ ledgerExists = FALSE
    /\ ledgerData = <<>>
    /\ startLen = Len(file)
    /\ startLedger = FALSE

SpecHuge == InitHuge /\ [][NextSeq]_vars

\* The caller cancels the context while a chunk fetch is under way.
Cancel ==
    /\ ~ctxDone
    /\ pc \in {"seq", "dispatch", "wait"}
    /\ \E i \in DOMAIN wk : wk[i].st \in {"req", "body"}
    /\ ctxDone' = TRUE
    /\ UNCHANGED <<cfg, srv, fsVars, pc, passVars, concVars, retVars, callVars,
                   holes, reqs, unitVars>>

NextCancel ==
    \/ Next
    \/ Cancel

SpecCancel == Init /\ [][NextCancel]_vars

\* One concurrent pass, called on its own with a context the caller may
\* cancel, up to its return.
NextPassCancel ==
    \/ \E i \in 1..MaxTotal, resp \in {"206", "fail"} : Request(i, resp)
    \/ \E i \in 1..MaxTotal : Read(i, 1, FALSE)
    \/ \E i \in 1..MaxTotal : Read(i, 1, TRUE)
    \/ \E i \in 1..MaxTotal : Read(i, 0, TRUE)
    \/ Dispatch
    \/ \E i \in 1..MaxTotal : Fail(i)
    \/ \E i \in 1..MaxTotal : Exit(i)
    \/ Finish
    \/ Cancel

\* The pass starts on a fresh file, no ledger about.
InitPassCancel ==
    /\ InitConc
    /\ ~ledgerExists
    /\ cfg.enableResume
    /\ ~cfg.autoChunk

SpecPassCancel == InitPassCancel /\ [][NextPassCancel]_vars

\* Clients that downloadChunksConcurrently is called on directly: the field
\* MaxConcurrency is an int, which a caller may leave 0 or set below.
PassConfigs ==
    [chunkSize : 1..MaxChunkSize,
     maxConcurrency : (-1)..MaxConc,
     retryCount : 0..MaxRetry,
     enableResume : {TRUE},
     autoChunk : {FALSE},
     fileSize : {0}]

\* downloadChunksConcurrently about to be called with the chunks of the whole
\* source or with an empty list, on a file just created or one that holds a
\* byte of other content.
InitPass ==
    /\ cfg \in PassConfigs
    /\ InitLocals
    /\ srv.ranges
    /\ pc = "enter"
    /\ phase = "rest"
    /\ chunks \in {<<>>, calculateChunks(cfg, 0, srv.total)}
    /\ wk = [i \in 1..Len(chunks) |-> NewWk]
    /\ fileExists = TRUE
    /\ file \in {<<>>, <<Stale(0)>>}
    /\ ledgerExists = FALSE
    /\ ledgerData = <<>>
    /\ holes = {}
    /\ startLen = Len(file)
    /\ startLedger = FALSE

\* downloadChunksConcurrently, entry: the channels are made.  make panics on
\* a negative capacity.
EnterPass ==
    /\ UNCHANGED envVars
    /\ pc = "enter"
    /\ IF cfg.maxConcurrency < 0
       THEN Return("panic", "conc")
       ELSE /\ pc' = IF Len(chunks) = 0 THEN "wait" ELSE "dispatch"
            /\ UNCHANGED retVars
    /\ UNCHANGED <<cfg, srv, fsVars, passVars, concVars, callVars, holes, reqs>>

NextPass ==
    \/ EnterPass
    \/ \E i \in 1..MaxTotal, resp \in {"206", "fail"} : Request(i, resp)
    \/ \E i \in 1..MaxTotal : Read(i, 1, FALSE)
    \/ \E i \in 1..MaxTotal : Read(i, 1, TRUE)
    \/ \E i \in 1..MaxTotal : Read(i, 0, TRUE)
    \/ Dispatch
    \/ \E i \in 1..MaxTotal : Fail(i)
    \/ \E i \in 1..MaxTotal : Exit(i)
    \/ Finish

\* One call of downloadChunksConcurrently, up to its return.
SpecPass == InitPass /\ [][NextPass]_vars

\* The same under a scheduler that lets every goroutine that can run take
\* its next step, and a server whose every request and read ends.
\* A pass on a file just created, with at most one retry per chunk.
InitPassLive == InitPass /\ file = <<>> /\ cfg.retryCount <= 1

SpecPassLive == InitPassLive /\ [][NextPass]_vars /\ WF_vars(NextPass)

\* Sequential clients, MaxConcurrency < 2, whose RetryCount is any int,
\* negative ones included: NewClient stores the caller's config as it is.
RetryConfigs ==
    [chunkSize : 1..MaxChunkSize,
     maxConcurrency : (-1)..1,
     retryCount : (-1)..MaxRetry,
     enableResume : {TRUE},
     autoChunk : {FALSE},
     fileSize : {0}]

\* A first run of such a client against a server that supports ranges.
InitRetry ==
    /\ cfg \in RetryConfigs
    /\ InitLocals
    /\ Idle
    /\ srv.ranges
    /\ fileExists = FALSE
    /\ file = <<>>
    /\ ledgerExists = FALSE
    /\ ledgerData = <<>>
    /\ startLen = 0
    /\ startLedger = FALSE

NextRetry ==
    \/ \E probe \in {"ok", "headfail", "rangefail"} : Download(probe)
    \/ \E i \in 1..MaxTotal, resp \in {"206", "fail"} : Request(i, resp)
    \/ \E i \in 1..MaxTotal : Read(i, 1, FALSE)
    \/ \E i \in 1..MaxTotal : Read(i, 1, TRUE)
    \/ \E i \in 1..MaxTotal : Read(i, 0, TRUE)
    \/ SeqAdvance
    \/ SeqFail
    \/ Cancel

SpecRetry == InitRetry /\ [][NextRetry]_vars

\* One concurrent pass against a server whose 206 body may be shorter or
\* longer than the range asked for.
NextPassBody ==
    \/ \E i \in 1..MaxTotal, resp \in {"206", "fail"} : Request(i, resp)
    \/ \E i \in 1..MaxTotal : Read(i, 1, FALSE)
    \/ \E i \in 1..MaxTotal : Read(i, 1, TRUE)
    \/ \E i \in 1..MaxTotal : Read(i, 0, TRUE)
    \/ \E i \in 1..MaxTotal : ReadEOF(i, 0)
    \/ \E i \in 1..MaxTotal : ReadEOF(i, 1)
    \/ \E i \in 1..MaxTotal : ReadTwo(i, FALSE)
    \/ \E i \in 1..MaxTotal : ReadTwo(i, TRUE)
    \/ Dispatch
    \/ \E i \in 1..MaxTotal : Fail(i)
    \/ \E i \in 1..MaxTotal : Exit(i)
    \/ Finish

SpecPassBody == InitPassCancel /\ [][NextPassBody]_vars

\* A server that may end the body of a 206 response before the last byte of
\* the range asked for.
NextShort ==
    \/ Next
    \/ \E i \in 1..MaxTotal : ReadEOF(i, 0)
    \/ \E i \in 1..MaxTotal : ReadEOF(i, 1)

SpecShort == Init /\ [][NextShort]_vars

\* ------------------------------------------------------------------ a failing disk

\* downloadChunkOnce, a round of the streaming loop in which Read returned
\* bytes and file.WriteAt failed: the attempt returns the write's error to
\* downloadChunk, whose loop treats it as any other.  res notes, while the
\* chunk is retried, that a write of it failed.
WriteError(i) ==
    /\ UNCHANGED envVars
    /\ i \in DOMAIN wk
    /\ wk[i].st = "body"
    /\ ~ctxDone
    /\ LET w2 == AttemptFailed([wk[i] EXCEPT !.res = "werr"])
       IN /\ wk' = [wk EXCEPT ![i] = w2]
          /\ holes' = HolesAfter(w2, chunks[i])
    /\ UNCHANGED <<cfg, srv, fsVars, pc, phase, chunks, di, attempt, concVars,
                   retVars, callVars, reqs>>

\* downloadChunksSequentially, the chunk under way returned an error and
\* saveFailedChunks fails: the ledger stays as it was, the save's error is
\* logged and the chunk's error returned.
SeqFailSaveError ==
    /\ UNCHANGED envVars
    /\ pc = "seq"
    /\ di \in DOMAIN wk
    /\ wk[di].st = "ret"
    /\ wk[di].res \in {"err", "ctx"}
    /\ Return(ErrKind(wk[di]), "seq-savefail")
    /\ UNCHANGED <<cfg, srv, fsVars, passVars, concVars, callVars, holes, reqs>>

\* downloadChunksConcurrently after wg.Wait(), chunks failed and
\* saveFailedChunks fails: the save's error is wrapped and returned, before
\* errors[0] is looked at.
FinishSaveError ==
    /\ UNCHANGED envVars
    /\ pc = "wait"
    /\ WaitDone
    /\ Len(failedChunks) > 0
    /\ Return("save", "conc-savefail")
    /\ UNCHANGED <<cfg, srv, fsVars, passVars, concVars, callVars, holes, reqs>>

NextDisk ==
    \/ Next
    \/ \E i \in 1..MaxTotal : WriteError(i)
    \/ SeqFailSaveError
    \/ FinishSaveError

\* Writes to the output file and to the ledger may fail.
SpecDisk == Init /\ [][NextDisk]_vars

\* ------------------------------------------------------------------ functions called on their own

\* The client the call is made on.
UnitConfig(k, a) ==
    [chunkSize |-> k, maxConcurrency |-> 1, retryCount |-> 0,
     enableResume |-> TRUE, autoChunk |-> a, fileSize |-> 0]

\* calculateChunks(start, end) on a client of chunk size k: small ranges, the
\* largest chunk size and range an integer holds, and with AutoChunk ranges
\* about the first size threshold.
PlanArgs ==
    {a \in [fn : {"calculateChunks"},
            start : 0..(MaxTotal - 1),
            end : (1..MaxTotal) \cup {100 * MB, 100 * MB + 1, MaxInt},
            chunkSize : (1..MaxChunkSize) \cup {MaxInt},
            autoChunk : BOOLEAN] :
        /\ a.end > a.start
        /\ a.end = MaxInt => (a.start = 0 /\ a.chunkSize = MaxInt /\ ~a.autoChunk)
        /\ a.end \in {100 * MB, 100 * MB + 1} => a.autoChunk}

\* calculateChunks(start, end) on a range without bytes, end <= start, for
\* chunk sizes that include 0, a negative one and the largest.
EmptyPlanArgs ==
    {a \in [fn : {"calculateChunks"},
            start : (0..MaxTotal) \cup {MaxInt},
            end : (-1)..MaxTotal,
            chunkSize : ((-1)..MaxChunkSize) \cup {MaxInt},
            autoChunk : BOOLEAN] :
        /\ a.end <= a.start
        /\ a.start = MaxInt => ~a.autoChunk}

\* Sizes about every threshold of calculateChunkSize, a negative one and one
\* far above the last threshold.
Sizes ==
    [mb : {-1, 0, 99, 100, 1023, 1024, 10239, 10240, 102399, 102400, 512000},
     b : {0, 1, MB - 1}]

\* calculateChunkSize(size) and calculateChunkSize(larger)
SizeArgs == [fn : {"calculateChunkSize"}, size : Sizes, larger : Sizes]

ChunkValues == [Index : {0, 1}, Start : {0, 2}, End : {-1, 1, MaxInt}]

ChunkLists ==
    {<<>>} \cup {<<c>> : c \in ChunkValues}
           \cup {<<c, d>> : c \in ChunkValues, d \in ChunkValues}

SaveArgs == {[fn |-> "saveFailedChunks", list |-> l] : l \in ChunkLists}

InitUnit ==
    /\ arg \in PlanArgs \cup EmptyPlanArgs \cup SaveArgs \cup SizeArgs
                \cup {[fn |-> "loadFailedChunks"]}
    /\ ret = [fn |-> "none"]
    /\ cfg = IF arg.fn = "calculateChunks"
             THEN UnitConfig(arg.chunkSize, arg.autoChunk)
             ELSE UnitConfig(1, FALSE)
    /\ srv = [total |-> 1, ranges |-> TRUE]
    /\ fileExists = FALSE
    /\ file = <<>>
    /\ ledgerExists \in BOOLEAN
    /\ ledgerData \in LedgerContents
    /\ ~ledgerExists => ledgerData = <<>>
    /\ arg.fn \in {"calculateChunks", "calculateChunkSize"} => ~ledgerExists
    /\ arg.fn = "saveFailedChunks" => ledgerData \in {<<>>, <<0, 0>>}
    /\ pc = "idle"
    /\ phase = "rest"
    /\ chunks = <<>>
    /\ wk = <<>>
    /\ di = 1
    /\ attempt = 0
    /\ sem = 0
    /\ wg = 0
    /\ errChan = <<>>
    /\ failedChunks = <<>>
    /\ result = "none"
    /\ lastMode = "none"
    /\ holes = {}
    /\ reqs = {}
    /\ startLen = 0
    /\ startLedger = ledgerExists
    /\ startChunks = <<>>
    /\ startHoley = FALSE
    /\ probed = "none"
    /\ ctxDone = FALSE

progVars == <<srv, fileExists, file, pc, passVars, concVars, retVars, callVars,
              holes, reqs, ctxDone>>

\* c.calculateChunks(start, end): the list, and the chunk size left in the
\* config.
CallCalculateChunks ==
    /\ arg.fn = "calculateChunks"
    /\ ret.fn = "none"
    /\ ret' = [fn |-> "calculateChunks",
               chunks |-> calculateChunks(cfg, arg.start, arg.end)]
    /\ cfg' = [cfg EXCEPT !.chunkSize = EffectiveChunkSize(cfg, arg.start, arg.end)]
    /\ UNCHANGED <<arg, ledgerExists, ledgerData, progVars>>

\* c.saveFailedChunks(list)
CallSaveFailedChunks ==
    /\ arg.fn = "saveFailedChunks"
    /\ ret.fn = "none"
    /\ SaveLedger(arg.list)
    /\ ret' = [fn |-> "saveFailedChunks"]
    /\ UNCHANGED <<arg, cfg, progVars>>

\* c.loadFailedChunks(), on the ledger as found or after the save.
CallLoadFailedChunks ==
    /\ \/ arg.fn = "loadFailedChunks" /\ ret.fn = "none"
       \/ arg.fn = "saveFailedChunks" /\ ret.fn = "saveFailedChunks"
    /\ ret' = [fn |-> "loadFailedChunks",
               ok |-> loadFailedChunks.ok,
               chunks |-> loadFailedChunks.chunks]
    /\ UNCHANGED <<arg, cfg, ledgerExists, ledgerData, progVars>>

\* calculateChunkSize of the two sizes given
CallCalculateChunkSize ==
    /\ arg.fn = "calculateChunkSize"
    /\ ret.fn = "none"
    /\ ret' = [fn |-> "calculateChunkSize",
               size |-> calculateChunkSize(arg.size.mb, arg.size.b),
               larger |-> calculateChunkSize(arg.larger.mb, arg.larger.b)]
    /\ UNCHANGED <<arg, cfg, ledgerExists, ledgerData, progVars>>

NextUnit ==
    \/ CallCalculateChunks
    \/ CallCalculateChunkSize
    \/ CallSaveFailedChunks
    \/ CallLoadFailedChunks

SpecUnit == InitUnit /\ [][NextUnit]_vars

\* ------------------------------------------------------------------ claims

Chunked == srv.ranges /\ cfg.enableResume

Returned == pc = "idle" /\ result # "none"

FileComplete == file = SourceFile(srv.total)

\* The chunks of the pass whose downloadChunk returned an error.
FailedOfPass == {i \in DOMAIN wk : wk[i].res \in {"err", "ctx"}}

\* Chunk fetches in flight: downloadChunk entered and not yet returned.
InFlight == {i \in DOMAIN wk : wk[i].st \in {"req", "body"}}

ChunkInPlace(ck) == \A o \in Offsets(ck) : o < Len(file) /\ file[o + 1] = Source(o)

\* C1: a chunked Download that is called again after one that failed on some
\* chunks (it finds the ledger the failed call left) and returns success
\* leaves every byte of [0, total) equal to the source's.
C1_IdempotentResume ==
    (Returned /\ result = "ok" /\ Chunked /\ startLedger) => FileComplete

\* C2: whenever Download returns success, the ledger file does not exist.
C2_SuccessClearsLedger ==
    (Returned /\ result = "ok") => ~ledgerExists

\* C3: between Download calls, the ledger file is absent if and only if no
\* chunk failed terminally without having been downloaded since.
C3_LedgerIffPending ==
    Returned => (~ledgerExists <=> holes = {})

C5_ReplayFillsHoles ==
    (Returned /\ result = "ok" /\ startHoley)
        => /\ reqs = {<<startChunks[j].Start, startChunks[j].End>> : j \in DOMAIN startChunks}
           /\ FileComplete
           /\ ~ledgerExists

\* C6: in a concurrent pass, never more than maxConcurrency chunk fetches
\* are in flight.
C6_ConcurrencyBound ==
    InConc => Cardinality(InFlight) <= cfg.maxConcurrency

C6_Witness ==
    /\ pc = "dispatch"
    /\ di <= Len(chunks)
    /\ Cardinality(InFlight) = cfg.maxConcurrency

AllFinished == \A i \in DOMAIN chunks : wk[i].st = "done"

AllAttempted == \A i \in DOMAIN chunks : <<chunks[i].Start, chunks[i].End>> \in reqs

\* C7: the concurrent pass returns, and writes or deletes the ledger, only
\* once every chunk of its list was dispatched, attempted and has finished.
C7_WaitForAll ==
    [][(InConc /\ (~InConc' \/ ledgerExists' # ledgerExists \/ ledgerData' # ledgerData))
         => (AllFinished /\ AllAttempted)]_vars

\* A pass returned in which a chunk failed and a later chunk succeeded.
C7_Witness ==
    /\ Returned /\ lastMode = "conc"
    /\ \E i, j \in DOMAIN wk : i < j /\ wk[i].res = "err" /\ wk[j].res = "ok"

\* C8: a concurrent pass in which a chunk failed returns an error and leaves
\* a ledger listing exactly the chunks that failed in the pass, each once.
C8_LedgerIsFailedSet ==
    (Returned /\ lastMode = "conc" /\ FailedOfPass # {})
        => /\ result = "chunk"
           /\ ledgerExists
           /\ Unmarshal(ledgerData).ok
           /\ LET L == Unmarshal(ledgerData).chunks
              IN /\ Len(L) = Cardinality(FailedOfPass)
                 /\ {L[j] : j \in DOMAIN L} = {chunks[i] : i \in FailedOfPass}

\* Two chunks failed, one succeeded, and a ledger of an earlier run was there.
C8_Witness ==
    /\ Returned /\ lastMode = "conc" /\ startLedger
    /\ Cardinality(FailedOfPass) >= 2
    /\ \E i \in DOMAIN wk : wk[i].res = "ok"

\* C9: a concurrent pass in which every chunk succeeded returns success and
\* leaves no ledger file, whether or not one existed before.
C9_AllOkClearsLedger ==
    (Returned /\ lastMode = "conc" /\ FailedOfPass = {})
        => (result = "ok" /\ ~ledgerExists)

C9_Witness ==
    /\ Returned /\ lastMode = "conc" /\ FailedOfPass = {}
    /\ startLedger /\ Len(chunks) >= 2
    /\ ~ledgerExists

\* C10: in and after a concurrent pass, every chunk whose fetch succeeded has
\* its source bytes at its offsets, whatever the other chunks wrote meanwhile.
C10_DisjointWrites ==
    (InConc \/ (Returned /\ lastMode = "conc"))
        => \A i \in DOMAIN wk : wk[i].res = "ok" => ChunkInPlace(chunks[i])

\* A pass of three or more chunks returned with every chunk in place.
C10_Witness ==
    /\ Returned /\ lastMode = "conc" /\ result = "ok"
    /\ Len(chunks) >= 3
    /\ \A i \in DOMAIN chunks : ChunkInPlace(chunks[i])

\* C11: for end > start and a chunk size k > 0, calculateChunks(start, end)
\* returns ceil((end - start) / k) chunks, the first starting at start, each
\* next one at the previous End + 1, the last ending at end - 1, none with
\* End < Start.
C11_PartitionCoverage ==
    (ret.fn = "calculateChunks" /\ arg.end > arg.start /\ cfg.chunkSize > 0) =>
        LET cs == ret.chunks
            k == cfg.chunkSize
        IN /\ Len(cs) = (arg.end - arg.start + k - 1) \div k
           /\ Len(cs) > 0
           /\ cs[1].Start = arg.start
           /\ cs[Len(cs)].End = arg.end - 1
           /\ \A j \in DOMAIN cs : cs[j].End >= cs[j].Start
           /\ \A j \in 2..Len(cs) : cs[j].Start = cs[j - 1].End + 1

\* C12: whenever the fetch of a chunk returned success, every offset of the
\* chunk holds the source's byte, whatever the server sent.
C12_FetchWritesWholeRange ==
    \A i \in DOMAIN wk : wk[i].res = "ok" => ChunkInPlace(chunks[i])

\* A step of the pass under way that keeps its chunk list.
SamePass == pc # "idle" /\ chunks' = chunks /\ DOMAIN wk' = DOMAIN wk

\* C13: with retryCount = r >= 0 and no cancellation, downloadChunk makes at
\* most r + 1 attempts (attempt number retry + 1 is under way while retry <= r),
\* starts a further attempt only after a failed one and only while retry < r,
\* starts none after a successful one, returns success only out of an attempt
\* that succeeded, and returns an error only out of attempt r + 1.
C13_RetryBound ==
    [][\A i \in DOMAIN wk :
          /\ wk[i].st \in {"req", "body"} => wk[i].retry <= cfg.retryCount
          /\ SamePass =>
                /\ (wk[i].st = "ret" /\ wk[i].res = "ok")
                      => wk'[i].st \notin {"req", "body"}
                /\ (wk[i].st \in {"req", "body"} /\ wk'[i].st = "req" /\ wk'[i] # wk[i])
                      => (wk'[i].retry = wk[i].retry + 1 /\ wk[i].retry < cfg.retryCount)
                /\ (wk[i].st # "ret" /\ wk'[i].st = "ret" /\ wk'[i].res = "ok")
                      => wk[i].st = "body"
                /\ (wk[i].st # "ret" /\ wk'[i].st = "ret" /\ wk'[i].res # "ok")
                      => wk[i].retry = cfg.retryCount]_vars

\* The last attempt that RetryCount allows is under way, after failed ones
\* and after an earlier chunk was fetched.
C13_Witness ==
    /\ cfg.retryCount > 0
    /\ \E i, j \in DOMAIN wk :
          /\ wk[i].res = "ok"
          /\ wk[j].st = "body" /\ wk[j].retry = cfg.retryCount

\* C14: a chunked download in which no chunk used up its attempts (no
\* downloadChunk returned an error) returns success, leaves the file equal to
\* the source and leaves no ledger file.
C14_TransientAbsorbed ==
    (Returned /\ lastMode \in {"seq", "conc", "nothing"} /\ result # "chunk")
        => (result = "ok" /\ FileComplete /\ ~ledgerExists)

\* C15: saveFailedChunks(list) followed by loadFailedChunks() returns no
\* error and a list of the same length and order, equal to the original in
\* Index, Start and End.
C15_LedgerRoundTrip ==
    (arg.fn = "saveFailedChunks" /\ ret.fn = "loadFailedChunks")
        => /\ ret.ok
           /\ Len(ret.chunks) = Len(arg.list)
           /\ \A j \in DOMAIN arg.list :
                 /\ ret.chunks[j].Index = arg.list[j].Index
                 /\ ret.chunks[j].Start = arg.list[j].Start
                 /\ ret.chunks[j].End = arg.list[j].End

\* Two different chunks saved over a ledger that was there, and loaded.
C15_Witness ==
    /\ arg.fn = "saveFailedChunks" /\ ret.fn = "loadFailedChunks"
    /\ startLedger
    /\ Len(arg.list) = 2 /\ arg.list[1] # arg.list[2]
    /\ ret.chunks = arg.list

\* C16: loadFailedChunks with no ledger file returns an empty list and no
\* error, and there is no ledger file afterwards.
C16_LoadMissing ==
    [][(arg.fn = "loadFailedChunks" /\ ret.fn = "none" /\ ~ledgerExists
            /\ ret'.fn = "loadFailedChunks")
         => (ret'.ok /\ ret'.chunks = <<>> /\ ~ledgerExists')]_vars

C16_Witness ==
    /\ arg.fn = "loadFailedChunks" /\ ret.fn = "loadFailedChunks"
    /\ ~startLedger /\ ~ledgerExists
    /\ ret.ok /\ ret.chunks = <<>>

\* C17: when the ledger file exists but does not parse, loadFailedChunks
\* returns an error, and a Download that reaches downloadWithResume returns
\* that error at once: no chunk is requested, and the content of the target
\* file and the ledger file stay as they were.
C17_CorruptLedgerFatal ==
    [][(pc = "idle" /\ ledgerExists /\ ~Unmarshal(ledgerData).ok
            /\ probed' = "ok" /\ Chunked /\ getExistingFileSize # srv.total)
         => /\ ~loadFailedChunks.ok
            /\ pc' = "idle" /\ result' = "load"
            /\ reqs' = {}
            /\ file' = file
            /\ ledgerExists' /\ ledgerData' = ledgerData]_vars

\* The error came back with a partial file and the unparsable ledger in place.
C17_Witness ==
    /\ Returned /\ result = "load"
    /\ 0 < startLen /\ Len(file) = startLen
    /\ ledgerExists /\ ~Unmarshal(ledgerData).ok

\* C18: when the size of the existing target file equals the total the probe
\* gave, Download returns success at once: no chunk request, no whole-file
\* request, and the target file is not touched.
C18_ShortCircuit ==
    [][(pc = "idle" /\ probed' = "ok" /\ getExistingFileSize = srv.total)
         => /\ pc' = "idle" /\ result' = "ok"
            /\ reqs' = {}
            /\ UNCHANGED <<fileExists, file>>]_vars

\* A file of the total's length and of other content, left as it was.
C18_Witness ==
    /\ Returned /\ result = "ok" /\ lastMode = "complete"
    /\ startLen = srv.total
    /\ file = [i \in 1..srv.total |-> Stale(i - 1)]

\* C20: when getFileInfo fails, on the HEAD request or on the range request,
\* Download returns an error at once: no chunk request, no whole-file request,
\* and the target file and the ledger file are neither created nor changed.
C20_ProbeFailureAborts ==
    [][(pc = "idle" /\ probed' \in {"headfail", "rangefail"})
         => /\ pc' = "idle" /\ result' = "probe"
            /\ reqs' = {}
            /\ UNCHANGED fsVars]_vars

\* The range request failed on a run that found a partial file and a ledger.
C20_Witness ==
    /\ Returned /\ result = "probe" /\ probed = "rangefail"
    /\ fileExists /\ Len(file) < srv.total
    /\ ledgerExists

\* C19: when the context was cancelled during a chunked download and the
\* download returns an error, the error is the cancellation error, not the
\* error of a request or of a read.
C19_CancelIsDistinct ==
    (Returned /\ ctxDone /\ lastMode \in {"seq", "conc"} /\ result # "ok")
        => result = "cancel"

\* A size is at most n MB.
AtMostMB(s, n) == s.mb < n \/ (s.mb = n /\ s.b = 0)

\* The chunk size of the band a size lies in.
BandSize(s) ==
    IF AtMostMB(s, 100) THEN 4 * MB
    ELSE IF AtMostMB(s, 1024) THEN 10 * MB
    ELSE IF AtMostMB(s, 10 * 1024) THEN 20 * MB
    ELSE IF AtMostMB(s, 100 * 1024) THEN 50 * MB
    ELSE 100 * MB

\* C21: the chunk size for a size is 4MB up to 100MB, 10MB up to 1GB, 20MB up
\* to 10GB, 50MB up to 100GB and 100MB above, each threshold in the lower
\* band; with AutoChunk calculateChunks cuts the range by the chunk size of
\* end - start, whatever chunk size was configured.
C21_AutoChunkBands ==
    /\ ret.fn = "calculateChunkSize" =>
           /\ ret.size = BandSize(arg.size)
           /\ ret.larger = BandSize(arg.larger)
    /\ (ret.fn = "calculateChunks" /\ arg.autoChunk) =>
           LET n == arg.end - arg.start
               k == BandSize([mb |-> n \div MB, b |-> n % MB])
               cs == ret.chunks
           IN /\ cfg.chunkSize = k
              /\ Len(cs) = (n + k - 1) \div k
              /\ \A j \in DOMAIN cs :
                     /\ cs[j].Start = arg.start + (j - 1) * k
                     /\ cs[j].End = IF j = Len(cs) THEN arg.end - 1
                                    ELSE cs[j].Start + k - 1

\* Both thresholds' cases: exactly 100GB gives 50MB, and a range of 100MB
\* and one byte is cut in chunks of 10MB whatever the configured size.
C21_Witness ==
    \/ /\ ret.fn = "calculateChunkSize"
       /\ arg.size = [mb |-> 100 * 1024, b |-> 0]
       /\ ret.size = 50 * MB
       /\ arg.larger = [mb |-> 100 * 1024, b |-> 1]
       /\ ret.larger = 100 * MB
    \/ /\ ret.fn = "calculateChunks"
       /\ arg.autoChunk
       /\ arg.chunkSize = 1
       /\ arg.end - arg.start = 100 * MB + 1
       /\ Len(ret.chunks) = 11

SizeLess(s1, s2) == s1.mb < s2.mb \/ (s1.mb = s2.mb /\ s1.b < s2.b)

\* C22: for sizes s1 < s2, calculateChunkSize(s2) >= calculateChunkSize(s1),
\* and the result is always positive.
C22_ChunkSizeMonotone ==
    ret.fn = "calculateChunkSize" =>
        /\ ret.size > 0
        /\ ret.larger > 0
        /\ SizeLess(arg.size, arg.larger) => ret.larger >= ret.size

C22_Witness ==
    /\ ret.fn = "calculateChunkSize"
    /\ SizeLess(arg.size, arg.larger)
    /\ arg.size.mb < 0
    /\ ret.size = 4 * MB
    /\ ret.larger = 100 * MB

RangeOf(ck) == <<ck.Start, ck.End>>

\* The ranges of the chunks the ledger listed when the call began.
LedgerRanges == {RangeOf(startChunks[j]) : j \in DOMAIN startChunks}

InPass == pc \in {"seq", "dispatch", "wait"}

InReplay == pc = "seq" /\ phase = "replay"

\* C23: in chunked mode with a ledger that lists chunks, exactly those chunks
\* are fetched, one at a time in the ledger's order; every one of them has
\* returned success before the size is measured again and a chunk of the
\* remaining range is fetched; if one fails the call returns an error having
\* requested nothing but ledger chunks.
C23_ReplayFirst ==
    [][/\ InReplay =>
            /\ chunks = startChunks
            /\ \A j \in DOMAIN wk :
                   /\ j < di => (wk[j].st = "ret" /\ wk[j].res = "ok")
                   /\ j > di => wk[j].st = "new"
            /\ reqs \subseteq {RangeOf(chunks[j]) : j \in 1..di}
       /\ (InReplay /\ phase' = "rest") =>
            /\ \A j \in DOMAIN wk : wk[j].st = "ret" /\ wk[j].res = "ok"
            /\ reqs' = LedgerRanges
       /\ (InReplay /\ pc' = "idle" /\ phase' = "replay") =>
            /\ result' \notin {"ok", "none"}
            /\ reqs' \subseteq LedgerRanges
       /\ (InPass' /\ phase' = "rest" /\ ~(InPass /\ phase = "rest")
             /\ Len(startChunks') > 0) => InReplay
      ]_vars

\* Two ledger chunks, the later range first, were replayed and a chunk of
\* the remaining range has been requested.
C23_Witness ==
    /\ pc = "seq"
    /\ phase = "rest"
    /\ Len(startChunks) = 2
    /\ startChunks[1].Start > startChunks[2].Start
    /\ LedgerRanges \subseteq reqs
    /\ reqs # LedgerRanges

\* The chunks cs tile [from, to): the first starts at from, each next one
\* where the one before ended, the last ends at to - 1.
Tiles(cs, from, to) ==
    /\ Len(cs) > 0
    /\ cs[1].Start = from
    /\ cs[Len(cs)].End = to - 1
    /\ \A j \in DOMAIN cs : cs[j].Start <= cs[j].End
    /\ \A j \in 2..Len(cs) : cs[j].Start = cs[j - 1].End + 1

\* C24: the pass over the remaining range is given chunks that tile
\* [currentSize, totalSize), currentSize being the size of the file when the
\* replay, if any, is over; with currentSize >= totalSize the call returns
\* success, no chunk fetched and the file as it was.
C24_RemainderTiles ==
    [][/\ (InPass' /\ phase' = "rest" /\ ~(InPass /\ phase = "rest")) =>
            Tiles(chunks', Len(file), srv.total)
       /\ (pc' = "idle" /\ lastMode' = "nothing" /\ ~(pc = "idle")) =>
            /\ Len(file) >= srv.total
            /\ result' = "ok"
            /\ file' = file
            /\ reqs' = reqs
      ]_vars

\* C25: in a sequential pass a chunk is started only after every chunk
\* before it in the list returned success; the pass returns the error of the
\* first chunk that fails, no later chunk of the list having been started or
\* requested, and the ledger then lists that one chunk and nothing else.
C25_SequentialStopsAtFirstFailure ==
    /\ pc = "seq" =>
           \A j \in DOMAIN wk :
               /\ j < di => (wk[j].st = "ret" /\ wk[j].res = "ok")
               /\ j > di => wk[j].st = "new"
    /\ (Returned /\ lastMode = "seq" /\ result # "ok") =>
           /\ di \in DOMAIN wk
           /\ wk[di].st = "ret"
           /\ wk[di].res \in {"err", "ctx"}
           /\ result = ErrKind(wk[di])
           /\ \A j \in DOMAIN wk :
                  /\ j < di => (wk[j].st = "ret" /\ wk[j].res = "ok")
                  /\ j > di => (wk[j].st = "new" /\ RangeOf(chunks[j]) \notin reqs)
           /\ ledgerExists
           /\ Unmarshal(ledgerData) = [ok |-> TRUE, chunks |-> <<chunks[di]>>]

\* The second of three chunks failed: the first is in place, the third was
\* never asked for.
C25_Witness ==
    /\ Returned
    /\ lastMode = "seq"
    /\ result = "chunk"
    /\ Len(chunks) = 3
    /\ di = 2
    /\ ChunkInPlace(chunks[1])
    /\ Unmarshal(ledgerData).chunks = <<chunks[2]>>

\* C26: a call whose probe succeeded and that does not find the file at its
\* full size takes the chunked path exactly when the server supports ranges
\* and resume is enabled, and the whole-file download otherwise; the
\* whole-file download asks for no range, and what it writes replaces the
\* file from offset 0, nothing of the old content left.
C26_StrategySelection ==
    [][/\ (pc = "idle" /\ probed' = "ok" /\ getExistingFileSize # srv.total) =>
            IF Chunked
            THEN InPass' \/ (pc' = "idle" /\ lastMode' \in {"load", "nothing"})
            ELSE pc' = "basic"
       /\ pc = "basic" =>
            /\ ~Chunked
            /\ reqs' = {}
            /\ file' # file => \E n \in 0..srv.total : file' = SourceFile(n)
            /\ (pc' = "idle" /\ result' = "ok") => file' = SourceFile(srv.total)
      ]_vars

\* A whole-file download over a file of other content, longer than the
\* source, returned success.
C26_Witness ==
    /\ Returned
    /\ lastMode = "basic"
    /\ result = "ok"
    /\ startLen > srv.total
    /\ srv.ranges
    /\ file = SourceFile(srv.total)
    /\ reqs = {}

\* C27: when a pass, sequential or concurrent, returned an error, the ledger
\* lists the chunks that failed in that pass, each once, and no other chunk:
\* nothing an earlier ledger listed is carried over.
C27_LedgerOfLatestPass ==
    (Returned /\ lastMode \in {"seq", "conc"} /\ result # "ok") =>
        /\ FailedOfPass # {}
        /\ ledgerExists
        /\ LET now == Unmarshal(ledgerData)
           IN /\ now.ok
              /\ Len(now.chunks) = Cardinality(FailedOfPass)
              /\ \A j \in DOMAIN now.chunks :
                     \E i \in FailedOfPass : now.chunks[j] = chunks[i]
              /\ \A i \in FailedOfPass :
                     \E j \in DOMAIN now.chunks : now.chunks[j] = chunks[i]

\* A concurrent pass started over a ledger that listed its first chunk; the
\* first chunk succeeded, the second failed, and the ledger lists the second.
C27_Witness ==
    /\ Returned
    /\ lastMode = "conc"
    /\ result = "chunk"
    /\ startLedger
    /\ probed = "none"
    /\ wk[1].res = "ok"
    /\ Unmarshal(ledgerData).chunks = <<chunks[2]>>

\* The errors the error Download returned wraps.
ErrorChain(res) ==
    IF res = "save" THEN {"save"}
    ELSE IF res = "chunk" THEN {"chunk"}
    ELSE IF res = "cancel" THEN {"ctx"}
    ELSE {}

\* C28: when the ledger cannot be written after a chunk failed, in a
\* sequential or a concurrent pass, the error returned reports the failed
\* write and still carries the chunk's error.
C28_SaveFailureSurfaced ==
    (Returned /\ lastMode \in {"seq-savefail", "conc-savefail"}) =>
        {"save", "chunk"} \subseteq ErrorChain(result)

\* C29: once a write to the file failed during the fetch of a chunk, no
\* further request for that chunk is answered: its downloadChunk has
\* returned, whatever RetryCount.
C29_WriteErrorNotRetried ==
    \A i \in DOMAIN wk : ~(wk[i].res = "werr" /\ wk[i].st = "body")

\* C30: once the context is cancelled no range request goes out and nothing
\* is written to the file; a chunk that was about to request, waiting before
\* a retry or reading a body returns the context's error at its next step,
\* and no chunk goes on to a further attempt.
C30_CancelAbortsRetries ==
    [][(ctxDone /\ pc # "idle") =>
           /\ reqs' = reqs
           /\ file' = file
           /\ \A i \in DOMAIN wk :
                  /\ wk'[i].retry <= wk[i].retry
                  /\ (wk[i].st \in {"req", "body"} /\ wk'[i] # wk[i]) =>
                         (wk'[i].st = "ret" /\ wk'[i].res = "ctx")
      ]_vars

\* Cancelled while waiting before its second attempt, with part of the
\* chunk written, the chunk returned the context's error.
C30_Witness ==
    /\ ctxDone
    /\ Returned
    /\ result = "cancel"
    /\ cfg.retryCount > 0
    /\ \E i \in DOMAIN wk : wk[i].res = "ctx" /\ ~ChunkInPlace(chunks[i])
    /\ Len(file) > 0

\* C31: a step of the fetch of chunk [Start, End] leaves every byte outside
\* [Start, End] as it was and the file no longer than End + 1 unless it
\* already was; the request, whatever its answer, writes nothing; the bytes
\* of the body go to offsets from Start upwards, none below the cursor.
C31_FetchTouchesOwnExtent ==
    [][\A i \in DOMAIN wk :
           (wk[i].st \in {"req", "body"} /\ wk'[i] # wk[i]) =>
               LET ck == chunks[i]
               IN /\ wk[i].st = "req" => file' = file
                  /\ (wk[i].st = "req" /\ wk'[i].st = "body") => wk'[i].off = ck.Start
                  /\ (wk[i].st = "body" /\ wk'[i].st = "body") => wk'[i].off >= wk[i].off
                  /\ Len(file') >= Len(file)
                  /\ Len(file') <= Max(Len(file), ck.End + 1)
                  /\ \A o \in 0..(Len(file') - 1) :
                         (o < ck.Start \/ o > ck.End \/ o < wk[i].off) =>
                             file'[o + 1] = IF o < Len(file) THEN file[o + 1] ELSE 0
      ]_vars

\* The body of the first chunk ran on into the second chunk's range: the
\* first chunk is in place and returned, nothing was written behind it.
C31_Witness ==
    /\ Len(chunks) >= 2
    /\ chunks[1].End = 0
    /\ wk[1].st = "ret"
    /\ wk[1].res = "ok"
    /\ wk[2].st = "new"
    /\ file = <<Source(0)>>

\* The chunk's downloadChunk returned success.
Completed(w) == w.st \in {"ret", "done"} /\ w.res = "ok"

\* C32: no step of a chunked download shortens the target file, and no step
\* changes a byte in the range of a chunk that has returned success in this
\* invocation: a chunk of the pass under way, or a ledger chunk replayed
\* before it.
C32_NoTruncationNoOverwrite ==
    [][(InPass /\ UNCHANGED chunks) =>
           /\ Len(file') >= Len(file)
           /\ \A i \in DOMAIN wk :
                  Completed(wk[i]) =>
                      \A o \in Offsets(chunks[i]) :
                          o < Len(file) => file'[o + 1] = file[o + 1]
           /\ (phase = "rest" /\ probed = "ok") =>
                  \A j \in DOMAIN startChunks :
                      \A o \in Offsets(startChunks[j]) :
                          o < Len(file) => file'[o + 1] = file[o + 1]
      ]_vars

\* A ledger chunk was replayed, and in the concurrent pass after it one chunk
\* has returned while the body of another is being read.
C32_Witness ==
    /\ InPass
    /\ phase = "rest"
    /\ probed = "ok"
    /\ Len(startChunks) > 0
    /\ pc \in {"dispatch", "wait"}
    /\ \E i, j \in DOMAIN wk :
           /\ Completed(wk[i])
           /\ ChunkInPlace(chunks[i])
           /\ wk[j].st = "body"

\* C33: no step of a download changes a field of the config other than
\* fileSize, and fileSize changes only to the size the probe learned.
C33_ConfigImmutable ==
    [][/\ cfg' = [cfg EXCEPT !.fileSize = cfg'.fileSize]
       /\ cfg'.fileSize # cfg.fileSize => cfg'.fileSize = srv.total
      ]_vars

C38_PassTerminates ==
    /\ [](\A i \in DOMAIN wk :
             (InConc /\ wk[i].st = "ret" /\ wk[i].res \in {"err", "ctx"})
                 => Len(errChan) < Len(chunks))
    /\ (pc = "dispatch" /\ cfg.maxConcurrency >= 1) ~> (pc = "wait")
    /\ (cfg.maxConcurrency >= 1) ~> (pc = "idle")

\* Three chunks went through one semaphore token, each failing and sending
\* its error, and the call returned.
C38_Witness ==
    /\ pc = "idle"
    /\ lastMode = "conc"
    /\ cfg.maxConcurrency = 1
    /\ Len(chunks) = 3
    /\ Len(errChan) = 3

\* C35: calculateChunks(start, end) with end <= start returns the empty
\* list, whatever the chunk size and with AutoChunk on or off.
C35_EmptyRangeNoChunks ==
    (ret.fn = "calculateChunks" /\ arg.end <= arg.start) => ret.chunks = <<>>

\* A range that ends before it starts, on a client of chunk size 0.
C35_Witness ==
    /\ ret.fn = "calculateChunks"
    /\ arg.end < arg.start
    /\ arg.chunkSize = 0
    /\ ~arg.autoChunk
    /\ ret.chunks = <<>>

\* C36: when the replay of the ledger's chunks c1..cn fails at ci, the
\* ledger the call leaves behind lists every one of ci..cn.
C36_FailedReplayKeepsPending ==
    (Returned /\ lastMode = "seq" /\ phase = "replay" /\ result # "ok") =>
        /\ ledgerExists
        /\ Unmarshal(ledgerData).ok
        /\ \A j \in di..Len(startChunks) :
              \E k \in DOMAIN Unmarshal(ledgerData).chunks :
                  Unmarshal(ledgerData).chunks[k] = startChunks[j]

\* C37: when the context was cancelled during a concurrent pass, on return
\* the ledger lists every chunk whose download did not return success, the
\* chunks the semaphore had not yet admitted at the cancellation included.
C37_CancelledPassRecordsAll ==
    (Returned /\ lastMode = "conc" /\ ctxDone) =>
        \A i \in DOMAIN chunks :
            ~Completed(wk[i]) =>
                /\ ledgerExists
                /\ Unmarshal(ledgerData).ok
                /\ \E k \in DOMAIN Unmarshal(ledgerData).chunks :
                       Unmarshal(ledgerData).chunks[k] = chunks[i]

\* One semaphore token and three chunks: the second was cancelled in flight
\* and the third, admitted only after it, is in the ledger as well.
C37_Witness ==
    /\ Returned
    /\ lastMode = "conc"
    /\ ctxDone
    /\ cfg.maxConcurrency = 1
    /\ Len(chunks) = 3
    /\ wk[2].res = "ctx"
    /\ wk[3].res = "ctx"
    /\ Len(Unmarshal(ledgerData).chunks) >= 2

\* C39: downloadChunk returns success only after an attempt of it that
\* returned success, whatever integer RetryCount is: a chunk that returned
\* nil has had its range requested.
C39_SuccessNeedsAttempt ==
    \A i \in DOMAIN wk :
        (wk[i].st \in {"ret", "done"} /\ wk[i].res = "ok")
            => RangeOf(chunks[i]) \in reqs

\* C40: a sequential client that starts without file and ledger, against a
\* server that sends the bytes asked for, holds the whole source once a
\* Download returns success, whatever Downloads failed or were cancelled
\* before.
C40_SequentialResumeComplete ==
    (Returned /\ result = "ok") =>
        \A o \in 0..(srv.total - 1) : o < Len(file) /\ file[o + 1] = Source(o)

====
